---- MODULE Spec2Model ----
(***************************************************************************)
(* A model of financial_management.py (Foobr Financial Dashboard): the     *)
(* derivation function calculate_financials, the session ledger            *)
(* st.session_state.financial_data, the durable file                       *)
(* foobr_financial_data.json and the handlers that read and write them.    *)
(*                                                                         *)
(* Representation.                                                         *)
(*  - A pandas Timestamp is an integer number of ticks, TicksPerDay ticks  *)
(*    to a calendar day; day 0 is 2024-02-01 (a Thursday).  A record's     *)
(*    Date column holds such a timestamp.                                  *)
(*  - A DataFrame is the sequence of its rows, a row a record of the 15    *)
(*    columns.  The empty DataFrame is << >>.                              *)
(*  - The JSON file holds rows whose Date is the '%Y-%m-%d' string, here   *)
(*    the day number (the time of day is dropped by strftime).             *)
(*  - A float quotient a / b is the exact fraction <<n, d>> in lowest      *)
(*    terms, d > 0; the integer 0 of the guard is <<0, 1>>.                *)
(***************************************************************************)
EXTENDS Integers, Sequences, FiniteSets, TLC

(* ------------------------------ bounds ------------------------------- *)

\* Ticks of the clock per calendar day (tick 0 of a day is midnight).
TicksPerDay == 2

\* The ledger handlers take report dates 0 .. NumDates-1.
NumDates == 2

\* The longest uploaded CSV, in rows.
MaxBatch == 2

\* The period queries see days -MaxDay .. MaxDay and ledgers of at most MaxRows rows.
MaxDay == 4

MaxRows == 2

\* calculate_financials is applied to amounts in -MaxAmount .. MaxAmount.
MaxAmount == 1

(* ----------------------------- arithmetic ---------------------------- *)

Abs(n) == IF n < 0 THEN -n ELSE n

RECURSIVE Gcd(_, _)
Gcd(a, b) == IF b = 0 THEN a ELSE Gcd(b, a % b)

\* Python's true division n / d for d > 0, as a fraction in lowest terms.
TrueDiv(n, d) ==
    LET g == Gcd(Abs(n), d)
    IN  IF n = 0 THEN <<0, 1>> ELSE <<n \div g, d \div g>>

\* The int 0 (0 == 0.0 in Python).
Zero == <<0, 1>>

RECURSIVE SumSeq(_)
SumSeq(s) == IF s = << >> THEN 0 ELSE Head(s) + SumSeq(Tail(s))

(* ------------------------ calculate_financials ----------------------- *)

\* calculate_financials with a slip: revenue taken from the balance after
\* expenses instead of the balance after repairs.
CalculateFinancialsRevenueSlip(starting_balance, bike_repairs, fuel, airtime, end_of_day_balance, payout, orders) ==
    LET balance_after_repairs  == starting_balance - bike_repairs
        total_expenses         == fuel + airtime
        balance_after_expenses == balance_after_repairs - total_expenses
        food_purchased         == balance_after_expenses - end_of_day_balance
        closing_balance        == end_of_day_balance + payout
        revenue                == closing_balance - balance_after_expenses
    IN  [BalanceAfterRepairs  |-> balance_after_repairs,
         TotalDailyExpenses   |-> total_expenses,
         BalanceAfterExpenses |-> balance_after_expenses,
         FoodPurchased        |-> food_purchased,
         ClosingBalance       |-> closing_balance,
         Revenue              |-> revenue,
         Orders               |-> orders,
         AverageOrderValue    |-> IF orders > 0 THEN TrueDiv(revenue, orders) ELSE Zero]

\* calculate_financials with a slip: the guard tests orders /= 0, so a
\* negative order count divides.
CalculateFinancialsGuardSlip(starting_balance, bike_repairs, fuel, airtime, end_of_day_balance, payout, orders) ==
    LET balance_after_repairs  == starting_balance - bike_repairs
        total_expenses         == fuel + airtime
        balance_after_expenses == balance_after_repairs - total_expenses
        food_purchased         == balance_after_expenses - end_of_day_balance
        closing_balance        == end_of_day_balance + payout
        revenue                == closing_balance - balance_after_repairs
    IN  [BalanceAfterRepairs  |-> balance_after_repairs,
         TotalDailyExpenses   |-> total_expenses,
         BalanceAfterExpenses |-> balance_after_expenses,
         FoodPurchased        |-> food_purchased,
         ClosingBalance       |-> closing_balance,
         Revenue              |-> revenue,
         Orders               |-> orders,
         AverageOrderValue    |-> IF orders # 0
                                  THEN TrueDiv(IF orders > 0 THEN revenue ELSE -revenue,
                                               Abs(orders))
                                  ELSE Zero]

\* calculate_financials (lines 106-139).
CalculateFinancials(starting_balance, bike_repairs, fuel, airtime, end_of_day_balance, payout, orders) ==
    LET balance_after_repairs  == starting_balance - bike_repairs
        total_expenses         == fuel + airtime
        balance_after_expenses == balance_after_repairs - total_expenses
        food_purchased         == balance_after_expenses - end_of_day_balance
        closing_balance        == end_of_day_balance + payout
        revenue                == closing_balance - balance_after_repairs
    IN  [BalanceAfterRepairs  |-> balance_after_repairs,
         TotalDailyExpenses   |-> total_expenses,
         BalanceAfterExpenses |-> balance_after_expenses,
         FoodPurchased        |-> food_purchased,
         ClosingBalance       |-> closing_balance,
         Revenue              |-> revenue,
         Orders               |-> orders,
         AverageOrderValue    |-> IF orders > 0 THEN TrueDiv(revenue, orders) ELSE Zero]

\* calculate_financials applied to a record of raw inputs (lines 361-364, 442-445).
Derive(e) ==
    CalculateFinancials(e.StartingBalance, e.BikeRepairs, e.Fuel, e.Airtime,
                        e.EndOfDayBalance, e.Payout, e.Orders)

\* The single row save_to_csv builds from save_data (lines 155-174); the
\* Date column is pd.to_datetime(report_date.strftime('%Y-%m-%d')).
NewRow(date, data_dict) ==
    [Date                 |-> date,
     StartingBalance      |-> data_dict.StartingBalance,
     BikeRepairs          |-> data_dict.BikeRepairs,
     Fuel                 |-> data_dict.Fuel,
     Airtime              |-> data_dict.Airtime,
     EndOfDayBalance      |-> data_dict.EndOfDayBalance,
     Payout               |-> data_dict.Payout,
     Orders               |-> data_dict.Orders,
     BalanceAfterRepairs  |-> data_dict.BalanceAfterRepairs,
     TotalExpenses        |-> data_dict.TotalDailyExpenses,
     BalanceAfterExpenses |-> data_dict.BalanceAfterExpenses,
     FoodPurchased        |-> data_dict.FoodPurchased,
     ClosingBalance       |-> data_dict.ClosingBalance,
     Revenue              |-> data_dict.Revenue,
     AverageOrderValue    |-> data_dict.AverageOrderValue]

\* Sample days of raw inputs: orders > 0, orders = 0, and a day whose ratio
\* of revenue to orders differs from EntryA's.
EntryA ==
    [StartingBalance |-> 100, BikeRepairs |-> 10, Fuel |-> 3, Airtime |-> 1,
     EndOfDayBalance |-> 40, Payout |-> 70, Orders |-> 4]

EntryB ==
    [StartingBalance |-> 200, BikeRepairs |-> 20, Fuel |-> 6, Airtime |-> 2,
     EndOfDayBalance |-> 80, Payout |-> 150, Orders |-> 0]

EntryC ==
    [StartingBalance |-> 50, BikeRepairs |-> 5, Fuel |-> 2, Airtime |-> 1,
     EndOfDayBalance |-> 15, Payout |-> 60, Orders |-> 10]

(* ------------------------- dates and the clock ------------------------ *)

\* pd.Timestamp(date) / pd.to_datetime('%Y-%m-%d' string): midnight of the day.
ParseDate(day) == day * TicksPerDay

\* Timestamp.strftime('%Y-%m-%d'): the calendar day, the time of day dropped.
FormatDate(ts) == ts \div TicksPerDay

\* Timestamp.normalize(): midnight of the same day.
Normalize(ts) == ParseDate(FormatDate(ts))

(* ----------------------------- DataFrames ---------------------------- *)

\* The positions of the rows of df dated ts (existing_data['Date'] == ts).
MatchingDates(df, ts) == {i \in 1..Len(df) : df[i].Date = ts}

\* The dates of a frame, and whether no date occurs twice.
DatesOf(df) == {df[i].Date : i \in 1..Len(df)}

UniqueDates(df) == \A i, j \in 1..Len(df) : df[i].Date = df[j].Date => i = j

\* drop_duplicates with keep='last': the last row of every date is kept.
RECURSIVE DropDuplicatesKeepLast(_)
DropDuplicatesKeepLast(df) ==
    IF df = << >> THEN << >>
    ELSE LET n    == Len(df)
             init == SubSeq(df, 1, n - 1)
             rest == DropDuplicatesKeepLast(SelectSeq(init, LAMBDA r : r.Date # df[n].Date))
         IN  Append(rest, df[n])

\* df.drop_duplicates(subset=['Date']).reset_index(drop=True): the first row
\* of every date is kept, in order (lines 507, 812, 832).
RECURSIVE DropDuplicates(_)
DropDuplicates(df) ==
    IF df = << >> THEN << >>
    ELSE <<Head(df)>> \o DropDuplicates(SelectSeq(Tail(df), LAMBDA r : r.Date # Head(df).Date))

(* --------------------------- the durable file ------------------------ *)

\* foobr_financial_data.json is absent, holds a complete JSON list of rows
\* ("json"), or holds the text written so far by an unfinished json.dump
\* ("partial": the file as open(..., 'w') truncated it, then a prefix).
FileAbsent == [kind |-> "absent", rows |-> << >>]

\* save_data_to_file with a slip: the Date column is written as it is,
\* without strftime.
ToRecordsUnformatted(data) == data

\* save_data_to_file with a slip: the date rounded to the nearest day
\* (.dt.round('D')) where the code cuts the time of day off.
ToRecordsRounded(data) == [i \in 1..Len(data) |-> [data[i] EXCEPT !.Date = FormatDate(@ + TicksPerDay \div 2)]]

\* data_copy['Date'].dt.strftime('%Y-%m-%d') and to_dict('records') (lines 22-26).
ToRecords(data) == [i \in 1..Len(data) |-> [data[i] EXCEPT !.Date = FormatDate(@)]]

\* pd.DataFrame(records) with df['Date'] = pd.to_datetime(df['Date']) (lines 45-47).
FromRecords(records) == [i \in 1..Len(records) |-> [records[i] EXCEPT !.Date = ParseDate(@)]]

\* save_data_to_file run to completion (lines 17-35): the file then holds
\* the JSON list of the frame's records ([] for the empty frame).
SaveDataToFile(data) == [kind |-> "json", rows |-> ToRecords(data)]

\* The debug message save_data_to_file leaves (line 35).
SavedMessage(data) == [text |-> "Data saved", n |-> Len(data)]

\* json.load(f) (line 42): raises on text that is no JSON document.
JsonLoad(f) ==
    IF f.kind = "json" THEN [raised |-> FALSE, records |-> f.rows]
    ELSE [raised |-> TRUE, records |-> << >>]

\* load_data_from_file without its except clause: the error propagates.
LoadDataFromFileNoExcept(f) ==
    IF f.kind # "absent"
    THEN LET r == JsonLoad(f)
         IN  IF r.raised
             THEN [raised |-> TRUE, df |-> << >>,
                   debug_message |-> [text |-> "Error loading data", n |-> 0]]
             ELSE IF r.records # << >>
             THEN [raised |-> FALSE, df |-> FromRecords(r.records),
                   debug_message |-> [text |-> "Loaded", n |-> Len(r.records)]]
             ELSE [raised |-> FALSE, df |-> << >>,
                   debug_message |-> [text |-> "File exists but contains no records", n |-> 0]]
    ELSE [raised |-> FALSE, df |-> << >>,
          debug_message |-> [text |-> "File does not exist yet", n |-> 0]]

\* load_data_from_file (lines 37-57): the frame returned, the debug message
\* left in the session, and whether an exception leaves the function.
LoadDataFromFile(f) ==
    IF f.kind # "absent"
    THEN LET r == JsonLoad(f)
         IN  IF r.raised
             THEN [raised |-> FALSE, df |-> << >>,
                   debug_message |-> [text |-> "Error loading data", n |-> 0]]
             ELSE IF r.records # << >>
             THEN [raised |-> FALSE, df |-> FromRecords(r.records),
                   debug_message |-> [text |-> "Loaded", n |-> Len(r.records)]]
             ELSE [raised |-> FALSE, df |-> << >>,
                   debug_message |-> [text |-> "File exists but contains no records", n |-> 0]]
    ELSE [raised |-> FALSE, df |-> << >>,
          debug_message |-> [text |-> "File does not exist yet", n |-> 0]]

(* ------------------------------ the state ---------------------------- *)

VARIABLES
    financial_data,  \* st.session_state.financial_data: the session ledger
    file,            \* foobr_financial_data.json
    debug_message,   \* st.session_state['debug_message']
    now,             \* the wall clock, pd.Timestamp.today()
    writing,         \* the json.dump in progress: the frame and the rows written
    call,            \* the last operation and its arguments
    ret,             \* what the last operation returned or raised
    pre,             \* financial_data when the last operation began
    prefile,         \* the file when the last operation began
    widgets,         \* the Daily Entry form as the last script run left it
    other_data       \* st.session_state.financial_data of a second session

vars == <<financial_data, file, debug_message, now, writing, call, ret, pre, prefile, widgets, other_data>>

NotWriting == [active |-> FALSE, opened |-> FALSE, data |-> << >>, n |-> 0]

\* The Daily Entry form before any script run, and a browser with a single
\* session: what the specifications of one handler at a time start from and
\* leave alone.
NoWidgets == [report_date |-> 0, entry |-> << >>, save_shown |-> FALSE, clicked |-> ""]

OneSession == widgets = NoWidgets /\ other_data = << >>

SameSession == UNCHANGED <<widgets, other_data>>

(* ------------------------------ save_to_csv -------------------------- *)

\* save_to_csv with a slip: where the date exists the one-row frame takes
\* the place of the ledger (existing_data = df).
SaveToCsvUpdateReplaceAll(existing_data, report_date, data_dict) ==
    LET row == NewRow(ParseDate(report_date), data_dict)
    IN  IF MatchingDates(existing_data, ParseDate(report_date)) # {}
        THEN {[raised |-> FALSE, data |-> <<row>>]}
        ELSE {[raised |-> FALSE, data |-> Append(existing_data, row)]}

\* save_to_csv with a slip: the row is appended without looking for the date.
SaveToCsvUpdateAppend(existing_data, report_date, data_dict) ==
    {[raised |-> FALSE,
      data   |-> Append(existing_data, NewRow(ParseDate(report_date), data_dict))]}

\* The outcomes of the ledger update of save_to_csv (lines 151-197) on the
\* session frame: the new frame, or an exception that leaves it as it was.
\* existing_data.loc[matching_dates] = df.values sets every matching row;
\* with more than one matching row the one-row value is either broadcast or
\* refused with a ValueError, depending on the pandas release.
SaveToCsvUpdate(existing_data, report_date, data_dict) ==
    LET formatted_date == report_date
        row            == NewRow(ParseDate(formatted_date), data_dict)
        matching_dates == MatchingDates(existing_data, ParseDate(formatted_date))
    IN  IF matching_dates # {}
        THEN {[raised |-> FALSE,
               data   |-> [i \in 1..Len(existing_data) |->
                             IF i \in matching_dates THEN row ELSE existing_data[i]]]}
             \cup (IF Cardinality(matching_dates) > 1
                   THEN {[raised |-> TRUE, data |-> existing_data]}
                   ELSE {})
        ELSE {[raised |-> FALSE, data |-> Append(existing_data, row)]}

\* save_data: the raw inputs updated with the results (lines 431-446).
SaveData(entry) == Derive(entry) @@ entry

(* ------------------------------ handlers ----------------------------- *)

\* The report dates and the raw inputs the ledger handlers are given.
LedgerDays == 0..(NumDates - 1)

LedgerEntries == {EntryA, EntryB}

\* The rows of an uploaded CSV file (Date as text): a day of figures other
\* than those entered by hand, for each date.  The files hold up to MaxBatch
\* rows, the same date twice included.
CsvRows == {[NewRow(d, SaveData(EntryC)) EXCEPT !.Date = d] : d \in LedgerDays}

CsvFiles == UNION {[1..n -> CsvRows] : n \in 1..MaxBatch}

\* load_data_from_csv (lines 265-282): read_csv, then the Date column parsed.
LoadDataFromCsv(csv) == FromRecords(csv)

\* The frame a tab works on (lines 470-480, 615-625): the session frame, or
\* the file's when the session frame is empty.
TabData(session, f) == IF session # << >> THEN session ELSE LoadDataFromFile(f).df

\* The merge with a slip: the imported frame is deduplicated and kept in
\* place of the combined one.
MergeFramesImported(existing, imported) == DropDuplicates(imported)

\* pd.concat([existing, imported]).drop_duplicates(subset=['Date']) (lines 506-507, 810-812).
MergeFrames(existing, imported) == DropDuplicates(existing \o imported)

\* Save Record (lines 429-450): save_to_csv, then the session frame reloaded
\* from the file.  An exception in save_to_csv ends the run.
SaveRecord(report_date, entry) ==
    \E o \in SaveToCsvUpdate(financial_data, report_date, SaveData(entry)) :
        /\ call' = [op |-> "save_record", date |-> ParseDate(report_date),
                    row |-> NewRow(ParseDate(report_date), SaveData(entry))]
        /\ pre' = financial_data
        /\ prefile' = file
        /\ IF o.raised
           THEN /\ financial_data' = o.data
                /\ ret' = [raised |-> TRUE, by |-> "save_to_csv"]
                /\ UNCHANGED <<file, debug_message>>
           ELSE LET saved  == SaveDataToFile(o.data)
                    loaded == LoadDataFromFile(saved)
                IN  /\ file' = saved
                    /\ financial_data' = IF loaded.raised THEN o.data ELSE loaded.df
                    /\ debug_message' = loaded.debug_message
                    /\ ret' = [raised |-> loaded.raised, by |-> IF loaded.raised THEN "load_data_from_file" ELSE ""]
        /\ UNCHANGED <<now, writing>>

\* Refresh Data From File (lines 483-487).
RefreshDataFromFile ==
    LET loaded == LoadDataFromFile(file)
    IN  /\ call' = [op |-> "refresh"]
        /\ pre' = financial_data
        /\ prefile' = file
        /\ financial_data' = IF loaded.raised THEN financial_data ELSE loaded.df
        /\ debug_message' = loaded.debug_message
        /\ ret' = [raised |-> loaded.raised, by |-> IF loaded.raised THEN "load_data_from_file" ELSE ""]
        /\ UNCHANGED <<file, now, writing>>

\* Upload Previous Records (lines 470-480, 490-512).
UploadPreviousRecords(csv) ==
    LET data          == TabData(financial_data, file)
        imported_data == LoadDataFromCsv(csv)
        result        == IF data = << >> THEN imported_data
                         ELSE MergeFrames(data, imported_data)
    IN  /\ imported_data # << >>
        /\ call' = [op |-> "upload", csv |-> imported_data]
        /\ pre' = financial_data
        /\ prefile' = file
        /\ financial_data' = result
        /\ file' = SaveDataToFile(result)
        /\ debug_message' = SavedMessage(result)
        /\ ret' = [raised |-> FALSE, by |-> ""]
        /\ UNCHANGED <<now, writing>>

\* Merge with Existing Data (lines 615-629, 696, 797-818).
MergeWithExistingData(csv) ==
    LET data          == TabData(financial_data, file)
        imported_data == LoadDataFromCsv(csv)
        deduped       == MergeFrames(data, imported_data)
    IN  /\ data # << >>
        /\ imported_data # << >>
        /\ call' = [op |-> "merge", csv |-> imported_data]
        /\ pre' = financial_data
        /\ prefile' = file
        /\ financial_data' = deduped
        /\ file' = SaveDataToFile(deduped)
        /\ debug_message' = SavedMessage(deduped)
        /\ ret' = [raised |-> FALSE, by |-> ""]
        /\ UNCHANGED <<now, writing>>

\* Deduplicate Records (lines 615-629, 696, 824-844).
DeduplicateRecords ==
    LET data          == TabData(financial_data, file)
        deduped       == DropDuplicates(data)
        dupes_removed == Len(data) - Len(deduped)
    IN  /\ data # << >>
        /\ call' = [op |-> "deduplicate"]
        /\ pre' = financial_data
        /\ prefile' = file
        /\ IF dupes_removed > 0
           THEN /\ financial_data' = deduped
                /\ file' = SaveDataToFile(deduped)
                /\ debug_message' = SavedMessage(deduped)
           ELSE /\ financial_data' = data
                /\ debug_message' = IF financial_data # << >> THEN debug_message
                                    ELSE LoadDataFromFile(file).debug_message
                /\ UNCHANGED file
        /\ ret' = [raised |-> FALSE, by |-> ""]
        /\ UNCHANGED <<now, writing>>

\* The session after main's first run with no file on disk (lines 291-296).
Init ==
    /\ file = FileAbsent
    /\ financial_data = LoadDataFromFile(FileAbsent).df
    /\ debug_message = LoadDataFromFile(FileAbsent).debug_message
    /\ now = 0
    /\ writing = NotWriting
    /\ call = [op |-> "init"]
    /\ ret = [raised |-> FALSE, by |-> ""]
    /\ pre = << >>
    /\ prefile = FileAbsent
    /\ OneSession

Next ==
    \/ (\E d \in LedgerDays, e \in LedgerEntries : SaveRecord(d, e)) /\ SameSession
    \/ RefreshDataFromFile /\ SameSession
    \/ (\E csv \in CsvFiles : UploadPreviousRecords(csv)) /\ SameSession
    \/ (\E csv \in CsvFiles : MergeWithExistingData(csv)) /\ SameSession
    \/ DeduplicateRecords /\ SameSession

Spec == Init /\ [][Next]_vars

(* ------------- the durable write, step by step (SpecIO) -------------- *)

\* Save Record up to the call of save_data_to_file (lines 429-449, 151-200):
\* the session frame is updated first, the write comes after.
IO_SaveRecordBegin(report_date, entry) ==
    /\ ~writing.active
    /\ \E o \in SaveToCsvUpdate(financial_data, report_date, SaveData(entry)) :
        /\ call' = [op |-> "save_record", date |-> ParseDate(report_date),
                    row |-> NewRow(ParseDate(report_date), SaveData(entry)),
                    data |-> o.data]
        /\ pre' = financial_data
        /\ prefile' = file
        /\ financial_data' = o.data
        /\ IF o.raised
           THEN /\ ret' = [raised |-> TRUE, by |-> "save_to_csv"]
                /\ UNCHANGED writing
           ELSE /\ ret' = [raised |-> FALSE, by |-> ""]
                /\ writing' = [active |-> TRUE, opened |-> FALSE, data |-> o.data, n |-> 0]
        /\ UNCHANGED <<file, debug_message, now>>

\* open('foobr_financial_data.json', 'w') (lines 27, 31): the file is
\* created or truncated to nothing.
IO_Open ==
    /\ writing.active /\ ~writing.opened
    /\ writing' = [writing EXCEPT !.opened = TRUE]
    /\ file' = [kind |-> "partial", rows |-> << >>]
    /\ UNCHANGED <<financial_data, debug_message, now, call, ret, pre, prefile>>

\* open raises (permission denied): nothing catches it in save_data_to_file,
\* save_to_csv or the handler, so the run ends with the session frame as
\* save_to_csv left it.
IO_OpenFails ==
    /\ writing.active /\ ~writing.opened
    /\ writing' = NotWriting
    /\ ret' = [raised |-> TRUE, by |-> "save_data_to_file"]
    /\ UNCHANGED <<financial_data, file, debug_message, now, call, pre, prefile>>

\* json.dump writes the next record to the file (lines 28, 32).
IO_Write ==
    /\ writing.active /\ writing.opened
    /\ writing.n < Len(writing.data)
    /\ writing' = [writing EXCEPT !.n = @ + 1]
    /\ file' = [kind |-> "partial",
                rows |-> Append(file.rows, ToRecords(writing.data)[writing.n + 1])]
    /\ UNCHANGED <<financial_data, debug_message, now, call, ret, pre, prefile>>

\* A write raises (disk full): the with block closes the file as it is and
\* the error leaves save_to_csv.
IO_WriteFails ==
    /\ writing.active /\ writing.opened
    /\ writing' = NotWriting
    /\ ret' = [raised |-> TRUE, by |-> "save_data_to_file"]
    /\ UNCHANGED <<financial_data, file, debug_message, now, call, pre, prefile>>

\* json.dump completes and the file is closed (lines 27-35); Save Record then
\* reloads the session frame from the file (line 450).
IO_Close ==
    /\ writing.active /\ writing.opened
    /\ writing.n = Len(writing.data)
    /\ LET saved  == SaveDataToFile(writing.data)
           loaded == LoadDataFromFile(saved)
       IN  /\ file' = saved
           /\ financial_data' = IF loaded.raised THEN financial_data ELSE loaded.df
           /\ debug_message' = loaded.debug_message
           /\ ret' = [raised |-> loaded.raised,
                      by |-> IF loaded.raised THEN "load_data_from_file" ELSE ""]
    /\ writing' = NotWriting
    /\ UNCHANGED <<now, call, pre, prefile>>

\* The process dies during the write; the next session starts with main's
\* load of the file as the crash left it (lines 294-296).
IO_CrashRestart ==
    /\ writing.active
    /\ LET loaded == LoadDataFromFile(file)
       IN  /\ financial_data' = IF loaded.raised THEN << >> ELSE loaded.df
           /\ debug_message' = loaded.debug_message
           /\ ret' = [raised |-> loaded.raised,
                      by |-> IF loaded.raised THEN "load_data_from_file" ELSE ""]
    /\ writing' = NotWriting
    /\ call' = [op |-> "restart"]
    /\ pre' = financial_data
    /\ prefile' = file
    /\ UNCHANGED <<file, now>>

\* Refresh Data From File, between two saves.
IO_Refresh == ~writing.active /\ RefreshDataFromFile

NextIO ==
    \/ (\E d \in LedgerDays, e \in LedgerEntries : IO_SaveRecordBegin(d, e)) /\ SameSession
    \/ IO_Open /\ SameSession
    \/ IO_OpenFails /\ SameSession
    \/ IO_Write /\ SameSession
    \/ IO_WriteFails /\ SameSession
    \/ IO_Close /\ SameSession
    \/ IO_CrashRestart /\ SameSession
    \/ IO_Refresh /\ SameSession

SpecIO == Init /\ [][NextIO]_vars

(* ------------------------ claims on the ledger ----------------------- *)

\* The rows of a frame that carry a given date, in order.
RowsFor(df, ts) == SelectSeq(df, LAMBDA r : r.Date = ts)

\* C1 (as claimed): after an upsert of r2 for a date D the ledger already
\* held with a different record r1, the ledger holds exactly one record for
\* D and it equals r2 in every field.
C1_UpsertReplaces ==
    (/\ call.op = "save_record"
     /\ \E i \in MatchingDates(pre, call.date) : pre[i] # call.row)
    => RowsFor(financial_data, call.date) = <<call.row>>

\* C2 (as claimed): the session ledger and the durable file each hold at
\* most one record per date.
C2_OneRecordPerDate ==
    /\ UniqueDates(financial_data)
    /\ UniqueDates(file.rows)

\* The dates an import into a non-empty ledger finds already there with
\* other values than the imported ones.
ImportConflicts ==
    IF call.op \in {"upload", "merge"} /\ pre # << >>
    THEN {ts \in DatesOf(call.csv) \cap DatesOf(pre) :
             \E i \in MatchingDates(pre, ts), j \in MatchingDates(call.csv, ts) :
                 pre[i] # call.csv[j]}
    ELSE {}

\* C3 (as claimed): after such an import the ledger holds exactly one record
\* for the date, and it is an imported one.
C3_ImportedWins ==
    \A ts \in ImportConflicts :
        /\ Len(RowsFor(financial_data, ts)) = 1
        /\ \E j \in MatchingDates(call.csv, ts) : financial_data[CHOOSE i \in MatchingDates(financial_data, ts) : TRUE] = call.csv[j]

\* C3 (amended): after such an import the ledger and the file hold exactly
\* one record for the date, and it is the first record the ledger held for
\* it before the import; the imported record is dropped.
C3_ExistingWins ==
    \A ts \in ImportConflicts :
        /\ RowsFor(financial_data, ts) = <<Head(RowsFor(pre, ts))>>
        /\ RowsFor(file.rows, FormatDate(ts)) = ToRecords(<<Head(RowsFor(pre, ts))>>)

\* C3 witness: an import has met a date the ledger held with other values,
\* and no imported record for that date equals the one kept.
C3_Witness ==
    \E ts \in ImportConflicts :
        \A j \in MatchingDates(call.csv, ts) : call.csv[j] # Head(RowsFor(pre, ts))

(* --------------------- claims on the durable write ------------------- *)

\* C4 (as claimed): at every point of a save, a crash included, the file
\* parses as a record list, the one stored before the save or the one being
\* saved.
C4_SaveIsAtomic ==
    /\ ~JsonLoad(file).raised \/ file.kind = "absent"
    /\ call.op = "save_record" =>
           \/ file = prefile
           \/ file = SaveDataToFile(call.data)

\* C5 (as claimed): when the durable write of an upsert fails, the session
\* ledger holds exactly the records it held before the upsert.
C5_FailedWriteKeepsLedger ==
    (call.op = "save_record" /\ ret.raised /\ ret.by = "save_data_to_file")
    => financial_data = pre

\* C6: load_data_from_file never raises; with the file absent or malformed
\* the ledger it returns is empty, a malformed file leaves an error message,
\* and the load leaves the file as it was.
C6_LoadNeverRaises ==
    call.op \in {"refresh", "restart"} =>
        /\ ~ret.raised
        /\ file = prefile
        /\ prefile.kind = "absent" =>
               /\ financial_data = << >>
               /\ debug_message.text = "File does not exist yet"
        /\ prefile.kind = "partial" =>
               /\ financial_data = << >>
               /\ debug_message.text = "Error loading data"

\* C6 witness: a load has met a malformed file while the session held
\* records, and returned the empty ledger with the error message.
C6_Witness ==
    /\ call.op \in {"refresh", "restart"}
    /\ prefile.kind = "partial"
    /\ pre # << >>
    /\ financial_data = << >>
    /\ debug_message.text = "Error loading data"

(* ------------------------- the period queries ------------------------ *)

\* Timestamp.dayofweek (Monday is 0); day 0 is Thursday 2024-02-01.
DayOfWeek(ts) == (FormatDate(ts) + 3) % 7

\* Timestamp.day, the day of the month, from 2024-01-01 to 2024-03-31.
DayOfMonth(ts) ==
    LET day == FormatDate(ts)
    IN  IF day < 0 THEN day + 32 ELSE IF day < 29 THEN day + 1 ELSE day - 28

\* today - pd.Timedelta(days=today.dayofweek) (lines 216, 253): the time of
\* day of today is kept.
StartOfWeek(today) == today - DayOfWeek(today) * TicksPerDay

\* today.replace(day=1) (lines 220, 257): the time of day of today is kept.
StartOfMonth(today) == today - (DayOfMonth(today) - 1) * TicksPerDay

\* filter_data_by_period (lines 233-263), today being pd.Timestamp.today().
FilterDataByPeriod(data, period, today) ==
    IF data = << >> THEN data
    ELSE IF period = "week"
    THEN SelectSeq(data, LAMBDA r : r.Date >= StartOfWeek(today))
    ELSE IF period = "month"
    THEN SelectSeq(data, LAMBDA r : r.Date >= StartOfMonth(today))
    ELSE IF period = "day"
    THEN SelectSeq(data, LAMBDA r : r.Date = Normalize(today))
    ELSE data

\* Series.sum() and Series.mean() of a column; the mean of no rows is NaN.
ColumnSum(data, col) == SumSeq([i \in 1..Len(data) |-> data[i][col]])

NaN == <<0, 0>>

ColumnMean(data, col) ==
    IF data = << >> THEN NaN ELSE TrueDiv(ColumnSum(data, col), Len(data))

\* The sum of a sequence of fractions, in lowest terms.
RECURSIVE FractionSum(_)
FractionSum(s) ==
    IF s = << >> THEN Zero
    ELSE LET rest == FractionSum(Tail(s))
             h    == Head(s)
         IN  TrueDiv(h[1] * rest[2] + rest[1] * h[2], h[2] * rest[2])

\* The dict generate_summary returns for no data: no keys.
EmptySummary == << >>

\* The rows generate_summary sums: those of its own period filter (lines 213-221).
SummaryRows(data, period, today) ==
    IF period = "week"
    THEN SelectSeq(data, LAMBDA r : r.Date >= StartOfWeek(today))
    ELSE IF period = "month"
    THEN SelectSeq(data, LAMBDA r : r.Date >= StartOfMonth(today))
    ELSE data

\* generate_summary with a slip: Average Order Value as the mean of the
\* rows' own Average Order Value.
GenerateSummaryMeanOfRatios(data, period, today) ==
    IF data = << >> THEN EmptySummary
    ELSE LET rows   == SummaryRows(data, period, today)
             ratios == FractionSum([i \in 1..Len(rows) |-> rows[i].AverageOrderValue])
         IN  [TotalRevenue        |-> ColumnSum(rows, "Revenue"),
              AverageDailyRevenue |-> ColumnMean(rows, "Revenue"),
              TotalOrders         |-> ColumnSum(rows, "Orders"),
              AverageDailyOrders  |-> ColumnMean(rows, "Orders"),
              AverageOrderValue   |->
                  IF ColumnSum(rows, "Orders") > 0
                  THEN TrueDiv(ratios[1], ratios[2] * Len(rows))
                  ELSE Zero]

\* generate_summary (lines 208-231).
GenerateSummary(data, period, today) ==
    IF data = << >> THEN EmptySummary
    ELSE LET rows == SummaryRows(data, period, today)
         IN  [TotalRevenue        |-> ColumnSum(rows, "Revenue"),
              AverageDailyRevenue |-> ColumnMean(rows, "Revenue"),
              TotalOrders         |-> ColumnSum(rows, "Orders"),
              AverageDailyOrders  |-> ColumnMean(rows, "Orders"),
              AverageOrderValue   |->
                  IF ColumnSum(rows, "Orders") > 0
                  THEN TrueDiv(ColumnSum(rows, "Revenue"), ColumnSum(rows, "Orders"))
                  ELSE Zero]

(* ------------------ the queries applied (SpecFilter) ----------------- *)

\* filter_data_by_period with a slip: the rows outside the period are
\* dropped from the frame passed in (data.drop(..., inplace=True)).
FilterDataByPeriodInPlace(data, period, today) == FilterDataByPeriod(data, period, today)

\* The frame passed to filter_data_by_period, after the call (lines 243-263):
\* the Date column is assigned only when it is not a datetime column, which
\* the session frame's always is, and data[mask] builds a new frame.
FilterDataByPeriodArgument(data, period, today) == data

\* A session whose ledger is the given frame, saved and loaded back.
SessionWith(ledger, clock) ==
    /\ file = IF ledger = << >> THEN FileAbsent ELSE SaveDataToFile(ledger)
    /\ financial_data = LoadDataFromFile(file).df
    /\ debug_message = LoadDataFromFile(file).debug_message
    /\ now = clock
    /\ writing = NotWriting
    /\ call = [op |-> "init"]
    /\ ret = [raised |-> FALSE, by |-> ""]
    /\ pre = << >>
    /\ prefile = file
    /\ OneSession

\* Ledgers of up to MaxRows rows over a set of rows.
FramesOver(rows) == UNION {[1..n -> rows] : n \in 0..MaxRows}

FilterDays == (-MaxDay)..MaxDay

FilterClock == ParseDate(-MaxDay)..(ParseDate(MaxDay) + TicksPerDay - 1)

Periods == {"day", "week", "month", "all"}

InitFilter ==
    \E ledger \in FramesOver({NewRow(ParseDate(d), SaveData(EntryA)) : d \in FilterDays}),
       clock \in FilterClock :
        SessionWith(ledger, clock)

\* filter_data_by_period called on the session frame (lines 519, 527, 528, 645).
FilterByPeriod(period) ==
    /\ call' = [op |-> "filter_data_by_period", period |-> period]
    /\ ret' = [raised |-> FALSE, by |-> "",
               value |-> FilterDataByPeriod(financial_data, period, now)]
    /\ pre' = financial_data
    /\ prefile' = file
    /\ financial_data' = FilterDataByPeriodArgument(financial_data, period, now)
    /\ UNCHANGED <<file, debug_message, now, writing>>

\* Time passes.
ClockTick ==
    /\ now + 1 \in FilterClock
    /\ now' = now + 1
    /\ call' = [op |-> "tick"]
    /\ UNCHANGED <<financial_data, file, debug_message, writing, ret, pre, prefile>>

NextFilter ==
    \/ (\E period \in Periods : FilterByPeriod(period)) /\ SameSession
    \/ ClockTick /\ SameSession

SpecFilter == InitFilter /\ [][NextFilter]_vars

\* The Monday of today's week and the first of today's month, at midnight.
MondayOf(today) == ParseDate(FormatDate(today) - DayOfWeek(today))

FirstOfMonth(today) == ParseDate(FormatDate(today) - (DayOfMonth(today) - 1))

\* C7 (as claimed): 'week' returns exactly the records dated on or after the
\* Monday of the current week and 'month' exactly those dated on or after
\* the first of the current month, whatever the time of day of the call.
C7_PeriodByCalendarDate ==
    call.op = "filter_data_by_period" =>
        /\ call.period = "week" =>
               ret.value = SelectSeq(financial_data, LAMBDA r : r.Date >= MondayOf(now))
        /\ call.period = "month" =>
               ret.value = SelectSeq(financial_data, LAMBDA r : r.Date >= FirstOfMonth(now))

(* ----------------- the summary applied (SpecSummary) ----------------- *)

SummaryClock == ParseDate(0)..(ParseDate(NumDates) - 1)

InitSummary ==
    \E ledger \in FramesOver({NewRow(ParseDate(d), SaveData(e)) :
                                 d \in LedgerDays, e \in {EntryA, EntryB, EntryC}}),
       clock \in SummaryClock :
        SessionWith(ledger, clock)

\* generate_summary called on the session frame (lines 531-533, 700 pass no
\* period; the period parameter takes 'week' and 'month' too).
Summarize(period) ==
    /\ call' = [op |-> "generate_summary", period |-> period]
    /\ ret' = [raised |-> FALSE, by |-> "",
               value |-> GenerateSummary(financial_data, period, now)]
    /\ pre' = financial_data
    /\ prefile' = file
    /\ UNCHANGED <<financial_data, file, debug_message, now, writing>>

NextSummary == (\E period \in {"none", "week", "month"} : Summarize(period)) /\ SameSession

SpecSummary == InitSummary /\ [][NextSummary]_vars

\* The records a summary is taken over: those passed, or those of them
\* within the period when a period is passed.
Summarized ==
    IF call.period = "week"
    THEN SelectSeq(financial_data, LAMBDA r : r.Date >= StartOfWeek(now))
    ELSE IF call.period = "month"
    THEN SelectSeq(financial_data, LAMBDA r : r.Date >= StartOfMonth(now))
    ELSE financial_data

RECURSIVE Total(_, _)
Total(rows, col) ==
    IF Len(rows) = 0 THEN 0
    ELSE Total(SubSeq(rows, 1, Len(rows) - 1), col) + rows[Len(rows)][col]

\* The fraction q is the ratio a / b (b > 0).
IsRatio(q, a, b) == q[2] > 0 /\ q[1] * b = a * q[2]

\* The totals and the aggregate ratio of a summary over rows.
SummaryAgrees(summary, rows) ==
    /\ "TotalRevenue" \in DOMAIN summary
    /\ summary.TotalRevenue = Total(rows, "Revenue")
    /\ summary.TotalOrders = Total(rows, "Orders")
    /\ IF Total(rows, "Orders") > 0
       THEN IsRatio(summary.AverageOrderValue, Total(rows, "Revenue"), Total(rows, "Orders"))
       ELSE summary.AverageOrderValue = Zero

Scenario1 == <<478411, 22500, 10000, 1000, 149472, 353600, 75>>

\* starting_balance, bike_repairs, fuel, airtime, end_of_day_balance,
\* payout, orders: every combination of small amounts, negative ones
\* included, and the example.
CalcInputs == [1..7 -> (-MaxAmount)..MaxAmount] \cup {Scenario1}

\* A fresh session with the values typed into the entry form.
InitCalc ==
    /\ file = FileAbsent
    /\ financial_data = LoadDataFromFile(FileAbsent).df
    /\ debug_message = LoadDataFromFile(FileAbsent).debug_message
    /\ now = 0
    /\ writing = NotWriting
    /\ \E args \in CalcInputs : call = [op |-> "entered", args |-> args]
    /\ ret = [raised |-> FALSE, by |-> ""]
    /\ pre = << >>
    /\ prefile = FileAbsent
    /\ OneSession

\* calculate_financials called with the entered values (lines 361-364, 442-445).
Calculate ==
    /\ call.op = "entered"
    /\ call' = [call EXCEPT !.op = "calculate_financials"]
    /\ ret' = [raised |-> FALSE, by |-> "",
               value |-> CalculateFinancials(call.args[1], call.args[2], call.args[3],
                                             call.args[4], call.args[5], call.args[6],
                                             call.args[7])]
    /\ UNCHANGED <<financial_data, file, debug_message, now, writing, pre, prefile>>

NextCalc == Calculate /\ SameSession

SpecCalc == InitCalc /\ [][NextCalc]_vars

\* The six metrics that do not depend on the order count, by the chain of
\* formulas of the derivation.
ChainHolds(a, m) ==
    /\ m.BalanceAfterRepairs = a[1] - a[2]
    /\ m.TotalDailyExpenses = a[3] + a[4]
    /\ m.BalanceAfterExpenses = m.BalanceAfterRepairs - m.TotalDailyExpenses
    /\ m.FoodPurchased = m.BalanceAfterExpenses - a[5]
    /\ m.ClosingBalance = a[5] + a[6]
    /\ m.Revenue = m.ClosingBalance - m.BalanceAfterRepairs

\* C9: for all inputs, negative ones included, calculate_financials returns
\* the chain of formulas and revenue / orders when orders > 0; scenario 1
\* gives 455911, 11000, 444911, 295439, 503072 and 47161.
C9_DerivationChain ==
    call.op = "calculate_financials" =>
        /\ ChainHolds(call.args, ret.value)
        /\ call.args[7] > 0 =>
               IsRatio(ret.value.AverageOrderValue, ret.value.Revenue, call.args[7])
        /\ call.args = Scenario1 =>
               /\ ret.value.BalanceAfterRepairs = 455911
               /\ ret.value.TotalDailyExpenses = 11000
               /\ ret.value.BalanceAfterExpenses = 444911
               /\ ret.value.FoodPurchased = 295439
               /\ ret.value.ClosingBalance = 503072
               /\ ret.value.Revenue = 47161

\* C9 witness: scenario 1 has been calculated.
C9_Witness ==
    /\ call.op = "calculate_financials"
    /\ call.args = Scenario1
    /\ ret.value.Revenue = 47161
    /\ ret.value.AverageOrderValue = <<47161, 75>>

\* C10: with orders = 0, or any orders not above 0, Average Order Value is
\* exactly 0 and the other six metrics follow the normal formulas.
C10_ZeroOrdersGuard ==
    (call.op = "calculate_financials" /\ call.args[7] <= 0) =>
        /\ ret.value.AverageOrderValue = Zero
        /\ ChainHolds(call.args, ret.value)

\* C10 witness: a day with a negative order count and a revenue other than
\* 0 has been calculated, and its Average Order Value is 0.
C10_Witness ==
    /\ call.op = "calculate_financials"
    /\ call.args[7] < 0
    /\ ret.value.Revenue # 0
    /\ ret.value.AverageOrderValue = Zero

(* ------------- save then load, as pure functions (SpecRoundTrip) ----- *)

\* Ledger rows with a date of their own: any of the days, at any time of day.
RoundTripRows == {NewRow(ParseDate(d) + t, SaveData(e)) : d \in LedgerDays, t \in 0..(TicksPerDay - 1), e \in {EntryA, EntryB, EntryC}}

\* No two rows of the frame fall on the same calendar day.
DistinctDays(df) == \A i, j \in 1..Len(df) : FormatDate(df[i].Date) = FormatDate(df[j].Date) => i = j

\* A frame of records with distinct dates is handed to save_data_to_file;
\* there is no file yet.
InitRoundTrip ==
    /\ file = FileAbsent
    /\ financial_data = LoadDataFromFile(FileAbsent).df
    /\ debug_message = LoadDataFromFile(FileAbsent).debug_message
    /\ now = 0
    /\ writing = NotWriting
    /\ \E data \in FramesOver(RoundTripRows) :
          DistinctDays(data) /\ call = [op |-> "entered", data |-> data]
    /\ ret = [raised |-> FALSE, by |-> ""]
    /\ pre = << >>
    /\ prefile = FileAbsent
    /\ OneSession

\* save_data_to_file(data) (lines 17-35).
RoundTripSave ==
    /\ call.op = "entered"
    /\ call' = [call EXCEPT !.op = "save_data_to_file"]
    /\ file' = SaveDataToFile(call.data)
    /\ debug_message' = SavedMessage(call.data)
    /\ pre' = financial_data
    /\ prefile' = file
    /\ UNCHANGED <<financial_data, now, writing, ret>>

\* load_data_from_file() on the file just written (lines 37-57).
RoundTripLoad ==
    /\ call.op = "save_data_to_file"
    /\ call' = [call EXCEPT !.op = "load_data_from_file"]
    /\ LET loaded == LoadDataFromFile(file)
       IN  /\ financial_data' = loaded.df
           /\ debug_message' = loaded.debug_message
           /\ ret' = [raised |-> loaded.raised, by |-> IF loaded.raised THEN "load_data_from_file" ELSE ""]
    /\ pre' = financial_data
    /\ prefile' = file
    /\ UNCHANGED <<file, now, writing>>

NextRoundTrip ==
    \/ RoundTripSave /\ SameSession
    \/ RoundTripLoad /\ SameSession

SpecRoundTrip == InitRoundTrip /\ [][NextRoundTrip]_vars

\* The set of the rows of a frame.
RowsOf(df) == {df[i] : i \in 1..Len(df)}

\* A record without its date.
Undated(r) == [c \in DOMAIN r \ {"Date"} |-> r[c]]

\* C11: for records with distinct dates, load_data_from_file after
\* save_data_to_file returns without raising the same set of calendar dates
\* and, for each date, the same values of every other field; the empty frame
\* comes back as the empty frame.
C11_RoundTrip ==
    call.op = "load_data_from_file" =>
        /\ ~ret.raised
        /\ Len(financial_data) = Len(call.data)
        /\ {FormatDate(r.Date) : r \in RowsOf(financial_data)} = {FormatDate(r.Date) : r \in RowsOf(call.data)}
        /\ \A r \in RowsOf(call.data), l \in RowsOf(financial_data) :
              FormatDate(l.Date) = FormatDate(r.Date) => Undated(l) = Undated(r)
        /\ (call.data = << >> => financial_data = << >>)

\* A frame of two records, one of them dated in the middle of a day, has
\* been saved and loaded again.
C11_Witness ==
    /\ call.op = "load_data_from_file"
    /\ Len(call.data) >= 2
    /\ \E r \in RowsOf(call.data) : r.Date # Normalize(r.Date)

(* --------------------- claims on the upsert (Spec) ------------------- *)

\* C12: a Save Record that follows a Save Record of the same record (same
\* date, same values) changes neither the session ledger nor the file:
\* saving twice leaves what saving once left, whether the date was in the
\* ledger before the first save or not.
C12_UpsertIdempotent ==
    [][(/\ call.op = "save_record"
        /\ ~ret.raised
        /\ call'.op = "save_record"
        /\ call'.row = call.row)
       => (financial_data' = financial_data /\ file' = file)]_vars

\* The second of two saves of one record has run: the ledger it began with
\* already held the record, and ledger and file are what they were.
C12_Witness ==
    /\ call.op = "save_record"
    /\ ~ret.raised
    /\ call.row \in RowsOf(pre)
    /\ financial_data = pre
    /\ file = prefile

(* ------------- CSV files edited outside the program (SpecImport) ----- *)

\* The rows of the CSV files a user may upload: the rows of an export, and
\* the same rows with the Revenue cell edited by hand.  load_data_from_csv
\* reads the cells as they are.
EditedCsvRows == CsvRows \cup {[r EXCEPT !.Revenue = @ + 1] : r \in CsvRows}

EditedCsvFiles == UNION {[1..n -> EditedCsvRows] : n \in 1..MaxBatch}

NextImport ==
    \/ (\E d \in LedgerDays, e \in LedgerEntries : SaveRecord(d, e)) /\ SameSession
    \/ RefreshDataFromFile /\ SameSession
    \/ (\E csv \in EditedCsvFiles : UploadPreviousRecords(csv)) /\ SameSession
    \/ (\E csv \in EditedCsvFiles : MergeWithExistingData(csv)) /\ SameSession
    \/ DeduplicateRecords /\ SameSession

SpecImport == Init /\ [][NextImport]_vars

\* The raw fields of a stored record.
RawFields(r) ==
    [StartingBalance |-> r.StartingBalance, BikeRepairs |-> r.BikeRepairs,
     Fuel |-> r.Fuel, Airtime |-> r.Airtime,
     EndOfDayBalance |-> r.EndOfDayBalance, Payout |-> r.Payout, Orders |-> r.Orders]

\* The stored record is what save_to_csv builds from its raw fields and
\* calculate_financials of them.
DerivedFromRaw(r) == r = NewRow(r.Date, SaveData(RawFields(r)))

\* C13 (as claimed): in every reachable state each record of the session
\* ledger and of the file has derived fields equal to calculate_financials
\* of its own raw fields.
C13_DerivedFromRaw ==
    /\ \A r \in RowsOf(financial_data) : DerivedFromRaw(r)
    /\ \A r \in RowsOf(file.rows) : DerivedFromRaw(r)

\* The record the ledger holds for a date: the first row with the date, the
\* one drop_duplicates keeps.
RecordFor(df, ts) == Head(RowsFor(df, ts))

\* C14: a date that has a record in the session ledger has one after every
\* step, and with the same values, unless the step is a Save Record for that
\* date: saves for other dates, uploads, merges, deduplication and refresh
\* neither remove the record nor change it.
C14_RecordsPersist ==
    [][\A ts \in DatesOf(financial_data) :
          \/ call'.op = "save_record" /\ call'.date = ts
          \/ /\ ts \in DatesOf(financial_data')
             /\ RecordFor(financial_data', ts) = RecordFor(financial_data, ts)]_vars

\* A deduplication has removed rows from a ledger, and every date of that
\* ledger still has its record.
C14_Witness ==
    /\ call.op = "deduplicate"
    /\ Len(financial_data) < Len(pre)
    /\ \A ts \in DatesOf(pre) : RecordFor(financial_data, ts) = RecordFor(pre, ts)

(* -------------- filters and exports as steps (SpecFrame) ------------- *)

\* The Filter by Date Range selection (lines 759-763): start_dt is midnight
\* of the start date and end_dt the last second of the end date.
DateRangeFilter(data, start_date, end_date) ==
    LET start_dt == ParseDate(start_date)
        end_dt   == ParseDate(end_date) + TicksPerDay - 1
    IN  SelectSeq(data, LAMBDA r : r.Date >= start_dt /\ r.Date <= end_dt)

\* DataFrame.to_csv / to_excel of a frame (lines 669, 681-683, 778): the
\* rows with the date written as text.
ToCsv(data) == ToRecords(data)

\* The dates of the records and of the date pickers, one day either side of
\* the report dates.
FrameDays == (-1)..NumDates

InitFrame ==
    \E ledger \in FramesOver({NewRow(ParseDate(d), SaveData(EntryA)) : d \in FrameDays}),
       clock \in SummaryClock :
        SessionWith(ledger, clock)

\* Filter by Date Range on the Data Storage tab (lines 615-625, 696, 750-787).
FilterByDateRange(start_date, end_date) ==
    LET data == TabData(financial_data, file)
    IN  /\ data # << >>
        /\ call' = [op |-> "date_range", start_date |-> start_date, end_date |-> end_date]
        /\ ret' = [raised |-> FALSE, by |-> "",
                   value |-> DateRangeFilter(data, start_date, end_date)]
        /\ pre' = financial_data
        /\ prefile' = file
        /\ financial_data' = data
        /\ UNCHANGED <<file, debug_message, now, writing>>

\* Export as CSV or Excel on the Data Storage tab (lines 615-625, 645, 668-693).
ExportData(period, format) ==
    LET data          == TabData(financial_data, file)
        filtered_data == FilterDataByPeriod(data, period, now)
    IN  /\ data # << >>
        /\ filtered_data # << >>
        /\ call' = [op |-> "export", period |-> period, format |-> format]
        /\ ret' = [raised |-> FALSE, by |-> "", value |-> ToCsv(filtered_data)]
        /\ pre' = financial_data
        /\ prefile' = file
        /\ financial_data' = FilterDataByPeriodArgument(data, period, now)
        /\ UNCHANGED <<file, debug_message, now, writing>>

NextFrame ==
    \/ (\E period \in Periods : FilterByPeriod(period)) /\ SameSession
    \/ (\E s, e \in FrameDays : FilterByDateRange(s, e)) /\ SameSession
    \/ (\E period \in Periods, format \in {"csv", "xlsx"} : ExportData(period, format)) /\ SameSession

SpecFrame == InitFrame /\ [][NextFrame]_vars

\* C15: filter_data_by_period for each period, the date-range filter and the
\* exports leave the session ledger and the file as they were, and the
\* date-range filter returns exactly the records dated from the start date
\* to the end date, both included.
C15_QueriesLeaveLedger ==
    call.op \in {"filter_data_by_period", "date_range", "export"} =>
        /\ financial_data = pre
        /\ file = prefile
        /\ (call.op = "date_range" =>
               ret.value = SelectSeq(pre, LAMBDA r :
                              /\ call.start_date <= FormatDate(r.Date)
                              /\ FormatDate(r.Date) <= call.end_date))

\* A period filter has left out some of the ledger's records and kept others.
C15_Witness ==
    /\ call.op = "filter_data_by_period"
    /\ ret.value # << >>
    /\ Len(ret.value) < Len(pre)

(* ------------- the script run under Streamlit reruns (SpecUI) -------- *)

\* st.button("Calculate") (line 352): True in the run its click triggered.
CalculateButton(clicked) == clicked = "Calculate"

\* save_button (lines 360, 427-429): st.button("Save Record") is called, and
\* its value read, only inside the block of `if calculate_button:`.
SaveButton(clicked) == IF CalculateButton(clicked) THEN clicked = "Save Record" ELSE FALSE

\* The user changes the date or a value of the form (lines 313-347): the
\* script runs again with no button pressed.
UI_Enter(report_date, entry) ==
    /\ widgets' = [report_date |-> report_date, entry |-> entry,
                   save_shown |-> CalculateButton(""), clicked |-> ""]
    /\ call' = [op |-> "rerun"]
    /\ ret' = [raised |-> FALSE, by |-> ""]
    /\ pre' = financial_data
    /\ prefile' = file
    /\ UNCHANGED <<financial_data, file, debug_message, now, writing, other_data>>

\* The user clicks Calculate, or Save Record where the last run has drawn
\* it, and the script runs again (lines 352-463).
UI_Click(button) ==
    /\ widgets.entry # << >>
    /\ button = "Save Record" => widgets.save_shown
    /\ widgets' = [widgets EXCEPT !.save_shown = CalculateButton(button), !.clicked = button]
    /\ IF SaveButton(button)
       THEN SaveRecord(widgets.report_date, widgets.entry)
       ELSE /\ call' = [op |-> "rerun"]
            /\ ret' = [raised |-> FALSE, by |-> ""]
            /\ pre' = financial_data
            /\ prefile' = file
            /\ UNCHANGED <<financial_data, file, debug_message, now, writing>>
    /\ UNCHANGED other_data

\* A run triggered on the Saved Financial Records tab: the Daily Entry block
\* runs with no button pressed, then the handler.
UI_Upload(csv) ==
    /\ UploadPreviousRecords(csv)
    /\ widgets' = [widgets EXCEPT !.save_shown = CalculateButton("Upload Previous Records"),
                                  !.clicked = "Upload Previous Records"]
    /\ UNCHANGED other_data

UI_Refresh ==
    /\ RefreshDataFromFile
    /\ widgets' = [widgets EXCEPT !.save_shown = CalculateButton("Refresh Data From File"),
                                  !.clicked = "Refresh Data From File"]
    /\ UNCHANGED other_data

NextUI ==
    \/ \E d \in LedgerDays, e \in LedgerEntries : UI_Enter(d, e)
    \/ \E button \in {"Calculate", "Save Record"} : UI_Click(button)
    \/ \E csv \in CsvFiles : UI_Upload(csv)
    \/ UI_Refresh

SpecUI == Init /\ [][NextUI]_vars

\* C16 (as claimed): after the run triggered by a click on Save Record, the
\* session ledger and the file hold a record for the selected date with the
\* entered values.
C16_SaveRecordSaves ==
    widgets.clicked = "Save Record" =>
        LET row == NewRow(ParseDate(widgets.report_date), SaveData(widgets.entry))
        IN  /\ row \in RowsOf(financial_data)
            /\ [row EXCEPT !.Date = widgets.report_date] \in RowsOf(file.rows)

(* ------------------ the record tables (SpecDisplay) ------------------ *)

\* Timestamp.month and Timestamp.year, from 2024-01-01 to 2024-03-31.
MonthOf(ts) ==
    LET day == FormatDate(ts)
    IN  IF day < 0 THEN 1 ELSE IF day < 29 THEN 2 ELSE 3

YearOf(ts) == 2024

\* Series.dt.strftime('%b %d, %Y') (lines 593, 653): the text 'Feb 01, 2024',
\* kept as its three parts, the month number standing for its abbreviation.
DisplayDate(ts) == [b |-> MonthOf(ts), d |-> DayOfMonth(ts), Y |-> YearOf(ts)]

\* The place of each month's abbreviation among the twelve in string order
\* (Apr, Aug, Dec, Feb, Jan, Jul, Jun, Mar, May, Nov, Oct, Sep).
AbbrRank == <<5, 4, 8, 1, 9, 7, 6, 2, 12, 11, 10, 3>>

\* s < t for two such texts as Python compares strings: by the abbreviation,
\* then the two-digit day, then the year.
StrLess(s, t) ==
    \/ AbbrRank[s.b] < AbbrRank[t.b]
    \/ s.b = t.b /\ s.d < t.d
    \/ s.b = t.b /\ s.d = t.d /\ s.Y < t.Y

\* display_df.sort_values('Date', ascending=False) (lines 594, 654) on the
\* column of texts; rows with the same text are rows of the same date.
RECURSIVE SortValuesDescending(_)
SortValuesDescending(df) ==
    IF df = << >> THEN << >>
    ELSE LET i == CHOOSE i \in 1..Len(df) :
                     \A j \in 1..Len(df) : ~StrLess(df[i].Date, df[j].Date)
         IN  <<df[i]>> \o SortValuesDescending(SubSeq(df, 1, i - 1) \o SubSeq(df, i + 1, Len(df)))

\* The Data Preview shows at most this many rows (line 657).
PreviewRows == 5

\* The table of the Saved Financial Records tab (lines 590-597) and the Data
\* Preview of the Data Storage tab (lines 650-658).
DisplayTable(filtered_data, tab) ==
    LET display_df == IF filtered_data # << >>
                      THEN SortValuesDescending([i \in 1..Len(filtered_data) |->
                               [filtered_data[i] EXCEPT !.Date = DisplayDate(@)]])
                      ELSE filtered_data
        preview_rows == IF PreviewRows < Len(display_df) THEN PreviewRows ELSE Len(display_df)
    IN  IF tab = "Data Storage" THEN SubSeq(display_df, 1, preview_rows) ELSE display_df

\* A run that shows the records of a period on one of the two tabs
\* (lines 470-480, 518-519, 590-597; 615-625, 645, 650-658).
ShowRecords(tab, period) ==
    LET data          == TabData(financial_data, file)
        filtered_data == FilterDataByPeriod(data, period, now)
    IN  /\ data # << >>
        /\ tab = "Saved Financial Records" => period # "day"
        /\ call' = [op |-> "display", tab |-> tab, period |-> period]
        /\ ret' = [raised |-> FALSE, by |-> "", value |-> DisplayTable(filtered_data, tab)]
        /\ pre' = financial_data
        /\ prefile' = file
        /\ financial_data' = FilterDataByPeriodArgument(data, period, now)
        /\ UNCHANGED <<file, debug_message, now, writing>>

NextDisplay ==
    \/ (\E tab \in {"Saved Financial Records", "Data Storage"}, period \in Periods : ShowRecords(tab, period)) /\ SameSession
    \/ ClockTick /\ SameSession

SpecDisplay == InitFilter /\ [][NextDisplay]_vars

\* The date a displayed text stands for comes before that of another.
ChronLess(s, t) ==
    \/ s.Y < t.Y
    \/ s.Y = t.Y /\ s.b < t.b
    \/ s.Y = t.Y /\ s.b = t.b /\ s.d < t.d

\* C17 (as claimed): the table shown lists the records newest first: no row
\* is dated before a row below it.
C17_NewestFirst ==
    call.op = "display" =>
        \A i, j \in 1..Len(ret.value) :
            i < j => ~ChronLess(ret.value[i].Date, ret.value[j].Date)

\* The rows of a frame dated otherwise than the given date, in order; and
\* the same for the records of the file, dated by day.
RowsNotFor(df, ts) == SelectSeq(df, LAMBDA r : r.Date # ts)

\* 1 when the frame has no row for the date, else 0.
Added(df, ts) == IF \E i \in 1..Len(df) : df[i].Date = ts THEN 0 ELSE 1

\* C18: a Save Record for date D leaves the records of every other date as
\* they were, in the session ledger and in the file, and the number of
\* records grows by one when D had no record and stays the same when it had.
C18_UpsertFrame ==
    call.op = "save_record" =>
        /\ RowsNotFor(financial_data, call.date) = RowsNotFor(pre, call.date)
        /\ RowsNotFor(file.rows, FormatDate(call.date)) = RowsNotFor(prefile.rows, FormatDate(call.date))
        /\ Len(financial_data) = Len(pre) + Added(pre, call.date)
        /\ Len(file.rows) = Len(prefile.rows) + Added(prefile.rows, FormatDate(call.date))

\* A save has rewritten the record of a date in a ledger that holds another
\* date as well.
C18_Witness ==
    /\ call.op = "save_record"
    /\ ~ret.raised
    /\ call.date \in DatesOf(pre)
    /\ RowsNotFor(pre, call.date) # << >>
    /\ financial_data # pre

\* C19: after every completed Save Record, upload, merge and deduplication
\* the file is a record list that load_data_from_file reads back as the
\* session ledger: a refresh or the reload after a save yields the ledger.
C19_FileHoldsLedger ==
    (call.op \in {"save_record", "upload", "merge", "deduplicate"} /\ ~ret.raised) =>
        /\ file.kind = "json"
        /\ ~LoadDataFromFile(file).raised
        /\ LoadDataFromFile(file).df = financial_data
        /\ file.rows = ToRecords(financial_data)

\* A merge has added records to a ledger and the file holds them all.
C19_Witness ==
    /\ call.op = "merge"
    /\ Len(financial_data) > Len(pre)
    /\ Len(file.rows) = Len(financial_data)

(* ---------------- two sessions on one file (SpecTwo) ----------------- *)

\* Save Record in the second session (lines 429-450): save_to_csv on that
\* session's own st.session_state.financial_data, the whole frame written
\* to the shared file, and the frame reloaded.
OtherSaveRecord(report_date, entry) ==
    \E o \in SaveToCsvUpdate(other_data, report_date, SaveData(entry)) :
        /\ call' = [op |-> "save_record", date |-> ParseDate(report_date),
                    row |-> NewRow(ParseDate(report_date), SaveData(entry))]
        /\ pre' = other_data
        /\ prefile' = file
        /\ IF o.raised
           THEN /\ other_data' = o.data
                /\ ret' = [raised |-> TRUE, by |-> "save_to_csv"]
                /\ UNCHANGED <<file, debug_message>>
           ELSE LET saved  == SaveDataToFile(o.data)
                    loaded == LoadDataFromFile(saved)
                IN  /\ file' = saved
                    /\ other_data' = IF loaded.raised THEN o.data ELSE loaded.df
                    /\ debug_message' = loaded.debug_message
                    /\ ret' = [raised |-> loaded.raised, by |-> IF loaded.raised THEN "load_data_from_file" ELSE ""]
        /\ UNCHANGED <<financial_data, now, writing, widgets>>

\* The second session loads the file: its first run (lines 294-296) in a
\* new browser tab, or Refresh Data From File (lines 483-487).
OtherLoad ==
    LET loaded == LoadDataFromFile(file)
    IN  /\ call' = [op |-> "refresh"]
        /\ pre' = other_data
        /\ prefile' = file
        /\ other_data' = IF loaded.raised THEN other_data ELSE loaded.df
        /\ debug_message' = loaded.debug_message
        /\ ret' = [raised |-> loaded.raised, by |-> IF loaded.raised THEN "load_data_from_file" ELSE ""]
        /\ UNCHANGED <<financial_data, file, now, writing, widgets>>

NextTwo ==
    \/ (\E d \in LedgerDays, e \in LedgerEntries : SaveRecord(d, e)) /\ SameSession
    \/ RefreshDataFromFile /\ SameSession
    \/ \E d \in LedgerDays, e \in LedgerEntries : OtherSaveRecord(d, e)
    \/ OtherLoad

\* Both sessions have loaded the file, which does not exist yet.
SpecTwo == Init /\ [][NextTwo]_vars

\* C20 (as claimed): a record that a save has written to the file is still
\* in the file after a later save, by either session, for a different date.
C20_NoLostRecord ==
    call.op = "save_record" =>
        \A r \in RowsOf(prefile.rows) :
            r.Date # FormatDate(call.date) => r \in RowsOf(file.rows)

====
